---- MODULE Spec2Model ----
(***************************************************************************)
(* mbtiles-compress: the command action (src/cli.js, and its older copy in *)
(* src/index.js main) and the transcoding pipeline run() (the library      *)
(* module that cli.js imports as ./index.js; src/index.js main holds the   *)
(* same pipeline inline).                                                  *)
(*                                                                         *)
(* JavaScript runs one callback to completion at a time.  The main flow of *)
(* run() is modelled statement group by statement group; the callbacks of  *)
(* the per-tile promise chain (.then / .catch / .finally) run only while   *)
(* the main flow is suspended at one of its two awaits.                    *)
(***************************************************************************)
EXTENDS Integers, Sequences, FiniteSets, Bags

VARIABLES
    entry,        \* which program was started: "cli.js" or "index.js"
    argv,         \* the option values commander hands to the action
    fs,           \* the file system: source path kind, destination dir / file
    tiles,        \* rows of the source archive's tiles view, in iterator order
    pc,           \* position of the main flow
    error,        \* message of the fatal error thrown, "none" if none
    concurrency,  \* the parsed concurrency handed to run()
    sourceDb,     \* "unopened" | "open" | "closed"
    destDb,       \* "unopened" | "open" | "closed"
    closes,       \* how often each archive was closed
    destObjects,  \* names of the schema objects created in the destination
    schemaLog,    \* the structural statements executed on the destination
    copied,       \* names of the tables bulk-copied into the destination
    images,       \* destination images table: bag of rows
    map,          \* destination map table: bag of rows
    countQueries, \* number of SELECT COUNT(*) queries run on the source
    next,         \* index of the next row the tiles iterator yields
    status,       \* per tile: state of its promise chain
    fault,        \* per tile: the failure that hit it ("unknown" until decided)
    steps,        \* per tile: the steps of its chain that took effect, in order
    activePromises, \* the set of chains not yet deleted by their finally
    awaiting,     \* the promises handed to Promise.race / Promise.all
    processed,    \* counter
    failed,       \* counter
    summary,      \* the end-of-run summary line, once printed
    finalized,    \* finalization statements executed so far
    exit          \* the process outcome

vars == <<entry, argv, fs, tiles, pc, error, concurrency, sourceDb, destDb,
          closes, destObjects, schemaLog, copied, images, map, countQueries,
          next, status, fault, steps, activePromises, awaiting, processed,
          failed, summary, finalized, exit>>

(***************************************************************************)
(* Bounds of the model.                                                    *)
(***************************************************************************)
\* longest source archive of the pipeline runs
MaxTiles == 3
\* longest source archive of the runs that vary the command line
MaxCliTiles == 2

(***************************************************************************)
(* Program constants.                                                      *)
(***************************************************************************)
MaxQuality == 100
MaxAlphaQuality == 100
MaxMethod == 6
MaxConcurrency == 100
MinConcurrency == 1

(***************************************************************************)
(* parseInt(string): skip leading blanks, an optional sign, an optional    *)
(* 0x prefix, then the longest prefix of digits; NaN when there is none.   *)
(* Strings are sequences of one-character strings.                         *)
(***************************************************************************)
NaN == [isNaN |-> TRUE, value |-> 0]

Number(n) == [isNaN |-> FALSE, value |-> n]

isNaN(v) == v.isNaN

DecDigits == <<"0", "1", "2", "3", "4", "5", "6", "7", "8", "9">>

HexDigits == DecDigits \o <<"a", "b", "c", "d", "e", "f">>

DigitsOf(radix) == IF radix = 16 THEN HexDigits ELSE DecDigits

IsDigit(c, radix) == \E i \in 1..Len(DigitsOf(radix)) : DigitsOf(radix)[i] = c

DigitValue(c, radix) ==
    (CHOOSE i \in 1..Len(DigitsOf(radix)) : DigitsOf(radix)[i] = c) - 1

RECURSIVE TrimStart(_)
TrimStart(s) ==
    IF s # <<>> /\ Head(s) = " " THEN TrimStart(Tail(s)) ELSE s

RECURSIVE ParseDigits(_, _, _)
ParseDigits(s, radix, acc) ==
    IF s = <<>> \/ ~IsDigit(Head(s), radix)
    THEN acc
    ELSE ParseDigits(Tail(s), radix, acc * radix + DigitValue(Head(s), radix))

parseInt(string) ==
    LET t      == TrimStart(string)
        signed == t # <<>> /\ Head(t) \in {"-", "+"}
        sign   == IF t # <<>> /\ Head(t) = "-" THEN -1 ELSE 1
        u      == IF signed THEN Tail(t) ELSE t
        hex    == Len(u) >= 2 /\ u[1] = "0" /\ u[2] \in {"x", "X"}
        radix  == IF hex THEN 16 ELSE 10
        digits == IF hex THEN Tail(Tail(u)) ELSE u
    IN  IF digits = <<>> \/ ~IsDigit(Head(digits), radix)
        THEN NaN
        ELSE Number(sign * ParseDigits(digits, radix, 0))

(***************************************************************************)
(* The command line.                                                       *)
(***************************************************************************)
DefaultOptions ==
    [quality      |-> <<"7", "5">>,
     alphaQuality |-> <<"1", "0", "0">>,
     method       |-> <<"4">>,
     concurrency  |-> <<"2", "0">>,
     force        |-> FALSE,
     skipCount    |-> FALSE]

QualityArgs == {<<"1", "5", "0">>, <<"a", "b", "c">>, <<"-", "1">>,
                <<"7", "5", ".", "5">>}

AlphaQualityArgs == {<<"1", "0", "1">>, <<>>}

MethodArgs == {<<"7">>, <<"x">>}

ConcurrencyArgs == {<<"0">>, <<"1">>, <<"2">>, <<"1", "0", "1">>}

\* the default command line with one option changed
ArgvCases ==
    {DefaultOptions}
    \cup {[DefaultOptions EXCEPT !.quality = q] : q \in QualityArgs}
    \cup {[DefaultOptions EXCEPT !.alphaQuality = a] : a \in AlphaQualityArgs}
    \cup {[DefaultOptions EXCEPT !.method = m] : m \in MethodArgs}
    \cup {[DefaultOptions EXCEPT !.concurrency = c] : c \in ConcurrencyArgs}
    \cup {[DefaultOptions EXCEPT !.force = TRUE]}
    \cup {[DefaultOptions EXCEPT !.skipCount = TRUE]}

\* the command lines of the pipeline runs: only the concurrency varies
PipelineArgv ==
    {[DefaultOptions EXCEPT !.concurrency = c] :
        c \in {<<"0">>, <<"1">>, <<"2">>}}

FsCases ==
    {[source |-> s, destDir |-> d, destination |-> f] :
        s \in {"file", "directory", "missing"},
        d \in BOOLEAN,
        f \in BOOLEAN}
    \ {[source |-> s, destDir |-> FALSE, destination |-> TRUE] :
        s \in {"file", "directory", "missing"}}

CleanFs == [source |-> "file", destDir |-> TRUE, destination |-> FALSE]

(***************************************************************************)
(* The checks of the action, in the order of the code: the message of the  *)
(* first one that throws, "none" when all pass.                            *)
(***************************************************************************)
ConcurrencyInvalid(c) ==
    isNaN(c) \/ c.value < MinConcurrency \/ c.value > MaxConcurrency

ArgumentError(options, files) ==
    LET quality      == parseInt(options.quality)
        alphaQuality == parseInt(options.alphaQuality)
        method       == parseInt(options.method)
        conc         == parseInt(options.concurrency)
    IN  IF isNaN(quality) \/ quality.value < 0 \/ quality.value > MaxQuality
        THEN "Quality must be a number between 0 and 100"
        ELSE IF isNaN(alphaQuality) \/ alphaQuality.value < 0
                \/ alphaQuality.value > MaxAlphaQuality
        THEN "Alpha quality must be a number between 0 and 100"
        ELSE IF isNaN(method) \/ method.value < 0 \/ method.value > MaxMethod
        THEN "Method must be a number between 0 and 6"
        ELSE IF ConcurrencyInvalid(conc)
        THEN "Concurrency must be a number between 1 and 100"
        ELSE IF files.source = "missing"
        THEN "Source file does not exist"
        ELSE IF files.source # "file"
        THEN "Source path is not a file"
        ELSE "none"

\* if (!existsSync(destDir)) mkdirSync(destDir, {recursive: true})
MakeDestDir(files) == [files EXCEPT !.destDir = TRUE]

DestinationError(options, files) ==
    IF files.destination /\ ~options.force
    THEN "Destination already exists"
    ELSE "none"

\* if (existsSync(destination)) unlinkSync(destination)
UnlinkDestination(files) == [files EXCEPT !.destination = FALSE]

(***************************************************************************)
(* The source archive.                                                     *)
(***************************************************************************)
TileData == {"pngA", "pngB"}

\* row i of the tiles view: its coordinate is (zoom_level, tile_column,
\* tile_row) number i, distinct per row
Sources(n, data) == UNION {[1..k -> data] : k \in 0..n}

\* the rows of the source's sqlite_master, in its order
ObjectList ==
    <<[name |-> "map", type |-> "table"],
      [name |-> "map_index", type |-> "index"],
      [name |-> "images", type |-> "table"],
      [name |-> "images_id", type |-> "index"],
      [name |-> "metadata", type |-> "table"],
      [name |-> "tiles", type |-> "view"]>>

SourceObjects == {ObjectList[i] : i \in DOMAIN ObjectList}

Tiles == 1..Len(tiles)

\* compressTile's result for raw bytes that the codec accepts
compressTile(tile_data) == <<"webp", tile_data>>

\* md5_hex: equal buffers give equal digests, different buffers of this
\* corpus different ones
md5_hex(buffer) == <<"md5", buffer>>

(***************************************************************************)
(* Promises.  A chain is "compressing" while compressTile is pending,      *)
(* "resolved" / "rejected" once the promise entering .then / .catch is     *)
(* settled, "fulfilled" / "uncaught" once the promise entering .finally is *)
(* settled, "done" / "doneRejected" once the chain itself is settled.      *)
(***************************************************************************)
Settled(st, p) == st[p] \in {"done", "doneRejected"}

\* Promise.race(ps) settles as soon as one of ps has settled
PromiseRaceSettled(ps, st) == \E p \in ps : Settled(st, p)

\* a join that returns as soon as one promise has settled
PromiseAllAsRace(ps, st) == ps = {} \/ \E p \in ps : Settled(st, p)

\* Promise.all(ps) fulfils once every one of ps is fulfilled and rejects as
\* soon as one of them is rejected
PromiseAllSettled(ps, st) ==
    \/ \A p \in ps : st[p] = "done"
    \/ \E p \in ps : st[p] = "doneRejected"

\* the limiter admitting one chain too many
LimiterFullOffByOne(active, n) == Cardinality(active) > n

\* the limiter waiting one chain too early
LimiterFullEarly(active, n) == Cardinality(active) >= n - 1

\* no limiter at all
LimiterFullNever(active, n) == FALSE

\* if (activePromises.size >= concurrency)
LimiterFull(active, n) == Cardinality(active) >= n

\* a plain INSERT INTO images
InsertOrIgnorePlain(table, row, objects) == table (+) SetToBag({row})

\* INSERT OR IGNORE INTO images: ignored when the unique index on tile_id
\* finds a row with that tile_id
InsertOrIgnore(table, row, objects) ==
    IF "images_id" \in objects
       /\ \E r \in BagToSet(table) : r.tile_id = row.tile_id
    THEN table
    ELSE table (+) SetToBag({row})

\* INSERT INTO map
Insert(table, row) == table (+) SetToBag({row})

\* the two statements run independently of each other: the map row is
\* written although the image insert threw
WriteTileUnordered(db, t, compressedData, o) ==
    LET newTileId == md5_hex(compressedData)
        imageRow  == [tile_id |-> newTileId, tile_data |-> compressedData]
        mapRow    == [coord |-> t, tile_id |-> newTileId]
    IN  IF db.state # "open"
        THEN [images |-> db.images, map |-> db.map, threw |-> TRUE,
              ran |-> <<>>]
        ELSE IF o = "image"
        THEN [images |-> db.images,
              map |-> db.map (+) SetToBag({mapRow}), threw |-> TRUE,
              ran |-> <<"insertMap">>]
        ELSE IF o = "map"
        THEN [images |-> db.images (+) SetToBag({imageRow}),
              map |-> db.map, threw |-> TRUE,
              ran |-> <<"insertTile">>]
        ELSE [images |-> db.images (+) SetToBag({imageRow}),
              map |-> db.map (+) SetToBag({mapRow}), threw |-> FALSE,
              ran |-> <<"insertTile", "insertMap">>]

\* the reference row written before the image row
WriteTileMapFirst(db, t, compressedData, o) ==
    LET newTileId == md5_hex(compressedData)
        imageRow  == [tile_id |-> newTileId, tile_data |-> compressedData]
        mapRow    == [coord |-> t, tile_id |-> newTileId]
    IN  IF db.state # "open" \/ o = "map"
        THEN [images |-> db.images, map |-> db.map, threw |-> TRUE,
              ran |-> <<>>]
        ELSE IF o = "image"
        THEN [images |-> db.images, map |-> db.map (+) SetToBag({mapRow}),
              threw |-> TRUE, ran |-> <<"insertMap">>]
        ELSE [images |-> db.images (+) SetToBag({imageRow}),
              map |-> db.map (+) SetToBag({mapRow}), threw |-> FALSE,
              ran |-> <<"insertMap", "insertTile">>]

\* The .then callback: the digest, then insertTile.run, then insertMap.run,
\* each a synchronous statement that may throw (o names the one that does);
\* a statement on a closed connection throws.
WriteTile(db, t, compressedData, o) ==
    LET newTileId == md5_hex(compressedData)
        imageRow  == [tile_id |-> newTileId, tile_data |-> compressedData]
        mapRow    == [coord |-> t, tile_id |-> newTileId]
    IN  IF db.state # "open" \/ o = "image"
        THEN [images |-> db.images, map |-> db.map, threw |-> TRUE,
              ran |-> <<>>]
        ELSE IF o = "map"
        THEN [images |-> InsertOrIgnore(db.images, imageRow, db.objects),
              map |-> db.map, threw |-> TRUE,
              ran |-> <<"insertTile">>]
        ELSE [images |-> InsertOrIgnore(db.images, imageRow, db.objects),
              map |-> Insert(db.map, mapRow), threw |-> FALSE,
              ran |-> <<"insertTile", "insertMap">>]

\* a catch callback that forgets failed++
CatchCallbackNoCount(n) == [failed |-> n, status |-> "fulfilled"]

\* a catch callback that throws the error on
CatchCallbackRethrow(n) == [failed |-> n + 1, status |-> "uncaught"]

\* The .catch callback warns, counts the failure and returns normally, so
\* the chain goes on fulfilled.
CatchCallback(n) == [failed |-> n + 1, status |-> "fulfilled"]

FinalizeStatements == <<"PRAGMA optimize", "ANALYZE", "VACUUM">>

Entries == {"cli.js", "index.js"}

NoSummary == [printed |-> FALSE, processed |-> 0, failed |-> 0]

(***************************************************************************)
(* Initial states: a command line, a file system and a source archive.    *)
(***************************************************************************)
Init ==
    /\ \/ /\ entry = "cli.js"
          /\ argv \in PipelineArgv
          /\ fs = CleanFs
          /\ tiles \in Sources(MaxTiles, TileData)
       \/ /\ entry \in Entries
          /\ argv \in ArgvCases
          /\ fs \in FsCases
          /\ tiles \in Sources(MaxCliTiles, {"pngA"})
    \* src/index.js declares no --skip-count option
    /\ entry = "index.js" => ~argv.skipCount
    /\ pc = "action"
    /\ error = "none"
    /\ concurrency = 0
    /\ sourceDb = "unopened"
    /\ destDb = "unopened"
    /\ closes = 0
    /\ destObjects = {}
    /\ schemaLog = <<>>
    /\ copied = {}
    /\ images = EmptyBag
    /\ map = EmptyBag
    /\ countQueries = 0
    /\ next = 1
    /\ status = [t \in 1..Len(tiles) |-> "idle"]
    /\ fault = [t \in 1..Len(tiles) |-> "unknown"]
    /\ steps = [t \in 1..Len(tiles) |-> <<>>]
    /\ activePromises = {}
    /\ awaiting = {}
    /\ processed = 0
    /\ failed = 0
    /\ summary = NoSummary
    /\ finalized = 0
    /\ exit = [code |-> 0, handled |-> FALSE]

(***************************************************************************)
(* The command action up to the call of run().                             *)
(***************************************************************************)
CommandAction ==
    /\ pc = "action"
    /\ LET e1 == ArgumentError(argv, fs)
           f1 == MakeDestDir(fs)
           e2 == DestinationError(argv, f1)
       IN  IF e1 # "none"
           THEN /\ error' = e1
                /\ pc' = "settled"
                /\ UNCHANGED <<fs, concurrency>>
           ELSE IF e2 # "none"
           THEN /\ error' = e2
                /\ pc' = "settled"
                /\ fs' = f1
                /\ UNCHANGED concurrency
           ELSE /\ fs' = UnlinkDestination(f1)
                /\ concurrency' = parseInt(argv.concurrency).value
                /\ pc' = "open"
                /\ UNCHANGED error
    /\ UNCHANGED <<entry, argv, tiles, sourceDb, destDb, closes, destObjects, schemaLog,
                   copied, images, map, countQueries, next, status, fault, steps,
                   activePromises, awaiting, processed, failed, summary,
                   finalized, exit>>

(***************************************************************************)
(* run(): opening the archives and replicating the schema.  A statement    *)
(* that throws takes the flow to the finally block.                        *)
(***************************************************************************)
\* a throw that leaves run() without passing through the finally block
ThrowNoFinally(message) ==
    /\ error' = message
    /\ pc' = "settled"

Throw(message) ==
    /\ error' = message
    /\ pc' = "finally"

TablesOf(objects) == {o.name : o \in {x \in objects : x.type = "table"}}

OthersOf(objects) == {o.name : o \in {x \in objects : x.type # "table"}}

\* the tables whose rows are copied from the attached source
CopiedTables(objects) == TablesOf(objects) \ {"images", "map"}

IsTable(o) == o.type = "table"

IsOther(o) == o.type # "table"

IsCopied(o) == o.type = "table" /\ o.name \notin {"images", "map"}

Statements(op, objects) ==
    [i \in DOMAIN objects |->
        [op |-> op, name |-> objects[i].name, type |-> objects[i].type]]

\* destDb.exec(sql) for every table
TableStatements(objects) == Statements("create", SelectSeq(objects, IsTable))

\* ATTACH, INSERT INTO name SELECT * FROM source.name for every table but
\* images and map, DETACH
CopyStatements(objects) ==
    <<[op |-> "attach", name |-> "source", type |-> "database"]>>
    \o Statements("copy", SelectSeq(objects, IsCopied))
    \o <<[op |-> "detach", name |-> "source", type |-> "database"]>>

\* the views are created, the indexes are not
IndexStatementsViewsOnly(objects) ==
    LET IsView(o) == o.type = "view"
    IN  Statements("create", SelectSeq(objects, IsView))

\* destDb.exec(sql) for every index and view
IndexStatements(objects) == Statements("create", SelectSeq(objects, IsOther))

\* the indexes and views created before the rows are copied
SchemaStatementsIndexesFirst(objects) ==
    TableStatements(objects) \o IndexStatements(objects)
    \o CopyStatements(objects)

\* tables and copied rows only, the indexes and views left out
SchemaStatementsNoIndexes(objects) ==
    TableStatements(objects) \o CopyStatements(objects)

\* the structural statements of run() in the order it executes them
SchemaStatements(objects) ==
    TableStatements(objects) \o CopyStatements(objects)
    \o IndexStatements(objects)

\* the loop of run() a statement belongs to
Phase(stmt) ==
    IF stmt.op = "create"
    THEN IF stmt.type = "table" THEN "tables" ELSE "indexes"
    ELSE "copy"

\* the next structural statement is executed, or throws
ExecStatement ==
    LET all  == SchemaStatements(ObjectList)
        k    == Len(schemaLog) + 1
        stmt == all[k]
    IN  /\ k <= Len(all)
        /\ Phase(stmt) = pc
        /\ \/ /\ schemaLog' = Append(schemaLog, stmt)
              /\ destObjects' = IF stmt.op = "create"
                                THEN destObjects \cup {stmt.name}
                                ELSE destObjects
              /\ copied' = IF stmt.op = "copy"
                           THEN copied \cup {stmt.name}
                           ELSE copied
              /\ pc' = IF k = Len(all) THEN "count" ELSE Phase(all[k + 1])
              /\ UNCHANGED error
           \/ /\ Throw("SqliteError")
              /\ UNCHANGED <<destObjects, schemaLog, copied>>

OpenArchives ==
    /\ pc = "open"
    /\ sourceDb' = "open"
    /\ destDb' = "open"
    /\ fs' = [fs EXCEPT !.destination = TRUE]
    /\ pc' = "tables"
    /\ UNCHANGED <<entry, argv, tiles, error, concurrency, closes,
                   destObjects, schemaLog, copied, images, map, countQueries, next,
                   status, fault, steps, activePromises, awaiting, processed,
                   failed, summary, finalized, exit>>

CreateTables ==
    /\ pc = "tables"
    /\ ExecStatement
    /\ UNCHANGED <<entry, argv, fs, tiles, concurrency, sourceDb, destDb,
                   closes, images, map, countQueries, next, status,
                   fault, steps, activePromises, awaiting, processed, failed,
                   summary, finalized, exit>>

CopyTables ==
    /\ pc = "copy"
    /\ ExecStatement
    /\ UNCHANGED <<entry, argv, fs, tiles, concurrency, sourceDb, destDb,
                   closes, images, map, countQueries, next, status,
                   fault, steps, activePromises, awaiting, processed, failed,
                   summary, finalized, exit>>

CreateIndexes ==
    /\ pc = "indexes"
    /\ ExecStatement
    /\ UNCHANGED <<entry, argv, fs, tiles, concurrency, sourceDb, destDb,
                   closes, images, map, countQueries, next, status,
                   fault, steps, activePromises, awaiting, processed, failed,
                   summary, finalized, exit>>

\* const totalCount = sourceDb.prepare(`SELECT COUNT(*) ...`).get().count
\* run() has six parameters: the seventh argument of cli.js, skipCount, is
\* not read.
CountTiles ==
    /\ pc = "count"
    /\ \/ /\ countQueries' = countQueries + 1
          /\ pc' = "prepare"
          /\ UNCHANGED error
       \/ /\ Throw("SqliteError")
          /\ UNCHANGED countQueries
    /\ UNCHANGED <<entry, argv, fs, tiles, concurrency, sourceDb, destDb,
                   closes, destObjects, schemaLog, copied, images, map, next, status,
                   fault, steps, activePromises, awaiting, processed, failed,
                   summary, finalized, exit>>

\* the counters, the active set, the prepared statements and the iterator
PrepareStatements ==
    /\ pc = "prepare"
    /\ processed' = 0
    /\ failed' = 0
    /\ activePromises' = {}
    /\ next' = 1
    /\ pc' = "loop"
    /\ UNCHANGED <<entry, argv, fs, tiles, error, concurrency, sourceDb,
                   destDb, closes, destObjects, schemaLog, copied, images, map,
                   countQueries, status, fault, steps, awaiting, summary, finalized,
                   exit>>

(***************************************************************************)
(* The admission loop and the final join.                                  *)
(***************************************************************************)
\* the iterator is exhausted: await Promise.all(activePromises)
LoopExit ==
    /\ pc = "loop"
    /\ next > Len(tiles)
    /\ awaiting' = activePromises
    /\ pc' = "all"
    /\ UNCHANGED <<entry, argv, fs, tiles, error, concurrency, sourceDb,
                   destDb, closes, destObjects, schemaLog, copied, images, map,
                   countQueries, next, status, fault, steps, activePromises,
                   processed, failed, summary, finalized, exit>>

\* the iterator yields a row: if the active set is full,
\* await Promise.race(activePromises)
LoopNext ==
    /\ pc = "loop"
    /\ next <= Len(tiles)
    /\ IF LimiterFull(activePromises, concurrency)
       THEN /\ awaiting' = activePromises
            /\ pc' = "race"
       ELSE /\ pc' = "admit"
            /\ UNCHANGED awaiting
    /\ UNCHANGED <<entry, argv, fs, tiles, error, concurrency, sourceDb,
                   destDb, closes, destObjects, schemaLog, copied, images, map,
                   countQueries, next, status, fault, steps, activePromises,
                   processed, failed, summary, finalized, exit>>

\* the race has settled: the await returns, or throws the rejection
ResumeRace ==
    /\ pc = "race"
    /\ PromiseRaceSettled(awaiting, status)
    /\ \E p \in awaiting :
          /\ Settled(status, p)
          /\ IF status[p] = "doneRejected"
             THEN Throw("rejected")
             ELSE /\ pc' = "admit"
                  /\ UNCHANGED error
    /\ awaiting' = {}
    /\ UNCHANGED <<entry, argv, fs, tiles, concurrency, sourceDb, destDb,
                   closes, destObjects, schemaLog, copied, images, map, countQueries,
                   next, status, fault, steps, activePromises, processed, failed,
                   summary, finalized, exit>>

\* compressTile(...).then(...).catch(...).finally(...) is started and added
\* to the active set
Admit ==
    /\ pc = "admit"
    /\ status' = [status EXCEPT ![next] = "compressing"]
    /\ activePromises' = activePromises \cup {next}
    /\ next' = next + 1
    /\ pc' = "loop"
    /\ UNCHANGED <<entry, argv, fs, tiles, error, concurrency, sourceDb,
                   destDb, closes, destObjects, schemaLog, copied, images, map,
                   countQueries, fault, steps, awaiting, processed, failed, summary,
                   finalized, exit>>

ResumeAll ==
    /\ pc = "all"
    /\ PromiseAllSettled(awaiting, status)
    /\ IF \E p \in awaiting : status[p] = "doneRejected"
       THEN Throw("rejected")
       ELSE /\ pc' = "summary"
            /\ UNCHANGED error
    /\ awaiting' = {}
    /\ UNCHANGED <<entry, argv, fs, tiles, concurrency, sourceDb, destDb,
                   closes, destObjects, schemaLog, copied, images, map, countQueries,
                   next, status, fault, steps, activePromises, processed, failed,
                   summary, finalized, exit>>

(***************************************************************************)
(* The promise chain of one tile.  Its callbacks run while the main flow   *)
(* is suspended.                                                           *)
(***************************************************************************)
Suspended == pc \in {"race", "all"}

\* compressTile settles: with the compressed bytes, or rejected
CompressSettles(t) ==
    /\ Suspended
    /\ status[t] = "compressing"
    /\ \/ /\ status' = [status EXCEPT ![t] = "resolved"]
          /\ steps' = [steps EXCEPT ![t] = Append(@, "compressTile")]
          /\ UNCHANGED fault
       \/ /\ status' = [status EXCEPT ![t] = "rejected"]
          /\ fault' = [fault EXCEPT ![t] = "transcode"]
          /\ UNCHANGED steps
    /\ UNCHANGED <<entry, argv, fs, tiles, pc, error, concurrency, sourceDb,
                   destDb, closes, destObjects, schemaLog, copied, images, map,
                   countQueries, next, activePromises, awaiting, processed,
                   failed, summary, finalized, exit>>

\* a loop variable shared by the iterations: the callback reads the
\* coordinate of the row yielded last
TileRowShared(t) == [coord |-> next - 1, tile_data |-> tiles[t]]

\* for (const { zoom_level, tile_column, tile_row, tile_data } of tiles):
\* the row bound by the iteration that started chain t
TileRow(t) == [coord |-> t, tile_data |-> tiles[t]]

ThenCallback(t) ==
    /\ Suspended
    /\ status[t] = "resolved"
    /\ \E o \in {"none", "image", "map"} :
          LET db == [state |-> destDb, images |-> images, map |-> map,
                     objects |-> destObjects]
              w  == WriteTile(db, TileRow(t).coord,
                              compressTile(TileRow(t).tile_data), o)
          IN  /\ images' = w.images
              /\ map' = w.map
              /\ status' = [status EXCEPT
                               ![t] = IF w.threw THEN "rejected"
                                      ELSE "fulfilled"]
              /\ fault' = [fault EXCEPT
                              ![t] = IF w.threw /\ o = "none" THEN "closed"
                                     ELSE o]
              /\ steps' = [steps EXCEPT ![t] = @ \o <<"md5_hex">> \o w.ran]
    /\ UNCHANGED <<entry, argv, fs, tiles, pc, error, concurrency, sourceDb,
                   destDb, closes, destObjects, schemaLog, copied, countQueries, next,
                   activePromises, awaiting, processed, failed, summary,
                   finalized, exit>>

CatchRuns(t) ==
    /\ Suspended
    /\ status[t] = "rejected"
    /\ LET c == CatchCallback(failed)
       IN  /\ failed' = c.failed
           /\ status' = [status EXCEPT ![t] = c.status]
    /\ UNCHANGED <<entry, argv, fs, tiles, pc, error, concurrency, sourceDb,
                   destDb, closes, destObjects, schemaLog, copied, images, map,
                   countQueries, next, fault, steps, activePromises, awaiting,
                   processed, summary, finalized, exit>>

\* a finally callback that forgets processed++
FinallyCallbackNoCount(t) ==
    /\ Suspended
    /\ status[t] \in {"fulfilled", "uncaught"}
    /\ activePromises' = activePromises \ {t}
    /\ status' = [status EXCEPT
                     ![t] = IF status[t] = "fulfilled" THEN "done"
                            ELSE "doneRejected"]
    /\ UNCHANGED <<entry, argv, fs, tiles, pc, error, concurrency, sourceDb,
                   destDb, closes, destObjects, schemaLog, copied, images, map,
                   countQueries, next, fault, steps, awaiting, processed,
                   failed, summary, finalized, exit>>

\* processed++; activePromises.delete(compressionPromise); the chain then
\* settles as the promise before it did
FinallyCallback(t) ==
    /\ Suspended
    /\ status[t] \in {"fulfilled", "uncaught"}
    /\ processed' = processed + 1
    /\ activePromises' = activePromises \ {t}
    /\ status' = [status EXCEPT
                     ![t] = IF status[t] = "fulfilled" THEN "done"
                            ELSE "doneRejected"]
    /\ UNCHANGED <<entry, argv, fs, tiles, pc, error, concurrency, sourceDb,
                   destDb, closes, destObjects, schemaLog, copied, images, map,
                   countQueries, next, fault, steps, awaiting, failed, summary,
                   finalized, exit>>

(***************************************************************************)
(* The summary, finalization, the finally block and the process outcome.   *)
(***************************************************************************)
PrintSummary ==
    /\ pc = "summary"
    /\ summary' = [printed |-> TRUE, processed |-> processed,
                   failed |-> failed]
    /\ pc' = "finalize"
    /\ UNCHANGED <<entry, argv, fs, tiles, error, concurrency, sourceDb,
                   destDb, closes, destObjects, schemaLog, copied, images, map,
                   countQueries, next, status, fault, steps, activePromises,
                   awaiting, processed, failed, finalized, exit>>

\* destDb.exec of the next of PRAGMA optimize, ANALYZE, VACUUM
Finalize ==
    /\ pc = "finalize"
    /\ \/ /\ finalized' = finalized + 1
          /\ pc' = IF finalized + 1 = Len(FinalizeStatements)
                   THEN "finally" ELSE "finalize"
          /\ UNCHANGED error
       \/ /\ Throw("SqliteError")
          /\ UNCHANGED finalized
    /\ UNCHANGED <<entry, argv, fs, tiles, concurrency, sourceDb, destDb,
                   closes, destObjects, schemaLog, copied, images, map, countQueries,
                   next, status, fault, steps, activePromises, awaiting, processed,
                   failed, summary, exit>>

\* finally { sourceDb.close(); destDb.close() }
Finally ==
    /\ pc = "finally"
    /\ sourceDb' = "closed"
    /\ destDb' = "closed"
    /\ closes' = closes + 1
    /\ pc' = "settled"
    /\ UNCHANGED <<entry, argv, fs, tiles, error, concurrency, destObjects, schemaLog,
                   copied, images, map, countQueries, next, status, fault, steps,
                   activePromises, awaiting, processed, failed, summary,
                   finalized, exit>>

\* src/index.js catches inside the async action: it prints Error: <message>
\* and calls process.exit(1).  src/cli.js wraps program.parse() in
\* try/catch: parse() returns before the async action settles, so a
\* rejection of the action is an unhandled rejection, on which the runtime
\* ends the process with code 1 without the handler having run.
ErrorHandler(program, err) ==
    IF err = "none"
    THEN [code |-> 0, handled |-> FALSE]
    ELSE IF program = "index.js"
    THEN [code |-> 1, handled |-> TRUE]
    ELSE [code |-> 1, handled |-> FALSE]

Exit ==
    /\ pc = "settled"
    /\ exit' = ErrorHandler(entry, error)
    /\ pc' = "exited"
    /\ UNCHANGED <<entry, argv, fs, tiles, error, concurrency, sourceDb,
                   destDb, closes, destObjects, schemaLog, copied, images, map,
                   countQueries, next, status, fault, steps, activePromises,
                   awaiting, processed, failed, summary, finalized>>

Next ==
    \/ CommandAction
    \/ OpenArchives
    \/ CreateTables
    \/ CopyTables
    \/ CreateIndexes
    \/ CountTiles
    \/ PrepareStatements
    \/ LoopExit
    \/ LoopNext
    \/ ResumeRace
    \/ Admit
    \/ ResumeAll
    \/ \E t \in Tiles : CompressSettles(t)
    \/ \E t \in Tiles : ThenCallback(t)
    \/ \E t \in Tiles : CatchRuns(t)
    \/ \E t \in Tiles : FinallyCallback(t)
    \/ PrintSummary
    \/ Finalize
    \/ Finally
    \/ Exit

Spec == Init /\ [][Next]_vars

\* the event loop runs every callback that is ready, and every
\* compressTile call settles
FairSpec == Spec /\ WF_vars(Next)

(***************************************************************************)
(* Vocabulary of the properties.                                           *)
(***************************************************************************)
\* the chains started and not yet completed
InFlight == {t \in Tiles : status[t] \notin {"idle", "done", "doneRejected"}}

\* the digest of tile t's own transcoded bytes
Digest(t) == md5_hex(compressTile(tiles[t]))

\* the items whose transcode or write failed
Failures == {t \in Tiles : fault[t] \notin {"unknown", "none"}}

\* the items whose transcode and write succeeded
Successes == {t \in Tiles : fault[t] = "none"}

RECURSIVE Copies(_, _)
Copies(rows, table) ==
    IF rows = {} THEN 0
    ELSE LET r == CHOOSE x \in rows : TRUE
         IN  CopiesIn(r, table) + Copies(rows \ {r}, table)

\* number of rows of the images table with tile_id d
ImageRows(d) == Copies({r \in BagToSet(images) : r.tile_id = d}, images)

\* number of rows of the map table with coordinate t
MapRows(t) == Copies({r \in BagToSet(map) : r.coord = t}, map)

Range(seq) == {seq[i] : i \in DOMAIN seq}

\* the run has left the Transcoding stage
PastTranscoding == pc = "summary" \/ summary.printed

(***************************************************************************)
(* C1: the number of chains started and not yet completed never exceeds    *)
(* the concurrency, and a tile is only about to be submitted while fewer   *)
(* than concurrency chains are in flight.                                  *)
(***************************************************************************)
C1_ConcurrencyBound ==
    /\ Cardinality(InFlight) <= concurrency
    /\ pc = "admit" => Cardinality(InFlight) < concurrency
    /\ pc \notin {"action", "settled", "exited"} => concurrency >= 1

\* the limiter is full with two chains in flight and a tile is waiting
C1_Witness ==
    /\ pc = "race"
    /\ concurrency = 2
    /\ Cardinality(InFlight) = concurrency
    /\ next <= Len(tiles)

(***************************************************************************)
(* C2: every row of the destination map table has a tile_id that has a row *)
(* in the destination images table, and an item that failed has no map row.*)
(***************************************************************************)
C2_ReferentialIntegrity ==
    /\ \A r \in BagToSet(map) : ImageRows(r.tile_id) >= 1
    /\ \A t \in Failures : MapRows(t) = 0

\* one item's image insert failed, another item's write succeeded
C2_Witness ==
    /\ \E t \in Tiles : fault[t] = "image" /\ status[t] = "done"
    /\ \E t \in Tiles : fault[t] = "none" /\ MapRows(t) = 1

(***************************************************************************)
(* C3: the images table holds exactly one row for every digest whose       *)
(* insert succeeded and no row for any other digest, however many tiles    *)
(* transcode to the same bytes.                                            *)
(***************************************************************************)
C3_Deduplication ==
    \A d \in {md5_hex(compressTile(x)) : x \in TileData} :
        ImageRows(d) =
            IF \E t \in Tiles : fault[t] \in {"none", "map"} /\ Digest(t) = d
            THEN 1 ELSE 0

\* two tiles with the same digest were both written
C3_Witness ==
    \E t, u \in Tiles :
        /\ t # u
        /\ Digest(t) = Digest(u)
        /\ fault[t] = "none" /\ fault[u] = "none"
        /\ status[t] = "done" /\ status[u] = "done"

(***************************************************************************)
(* C4 as stated: when the run completes (exit code 0), the destination map *)
(* table has as many rows as the source has tiles, also when some items    *)
(* fail.                                                                   *)
(***************************************************************************)
C4_SameRowCount ==
    (pc = "exited" /\ exit.code = 0 /\ summary.printed) =>
        BagCardinality(map) = Len(tiles)

(***************************************************************************)
(* C4 amended: when the run completes, the destination map table has one   *)
(* row for every source tile whose transcode and write succeeded and none  *)
(* for a failed one: as many rows as the source has tiles minus the failed *)
(* count, no coordinate twice.                                             *)
(***************************************************************************)
C4_RowCountMinusFailed ==
    /\ \A t \in Tiles : MapRows(t) = IF t \in Successes THEN 1 ELSE 0
    /\ (pc = "exited" /\ summary.printed) =>
           BagCardinality(map) = Len(tiles) - failed

\* a completed run in which an item failed and another was written
C4_Witness ==
    /\ pc = "exited"
    /\ exit.code = 0
    /\ summary.printed
    /\ failed >= 1
    /\ BagCardinality(map) >= 1

(***************************************************************************)
(* C5: a per-item failure is never the fatal error of the run; once the    *)
(* run has left Transcoding every item whose own transcode and write       *)
(* succeeded has its image row and its map row, and the failed count is    *)
(* the number of failed items; a run whose finalization statements all     *)
(* succeed exits with code 0.                                              *)
(***************************************************************************)
C5_FailureIsolation ==
    /\ error # "rejected"
    /\ PastTranscoding =>
          /\ \A t \in Successes :
                /\ [coord |-> t, tile_id |-> Digest(t)] \in BagToSet(map)
                /\ ImageRows(Digest(t)) = 1
          /\ Successes \cup Failures = Tiles
          /\ failed = Cardinality(Failures)
    /\ (pc = "exited" /\ finalized = Len(FinalizeStatements)) =>
          /\ exit.code = 0
          /\ summary.failed = Cardinality(Failures)

\* a run that exits with code 0 after one item failed and another succeeded
C5_Witness ==
    /\ pc = "exited"
    /\ exit.code = 0
    /\ summary.failed >= 1
    /\ Successes # {}

(***************************************************************************)
(* C6 as stated: when an option is not an integer in its range, the source *)
(* is missing or not a regular file, or the destination exists without     *)
(* --force, the action ends at once in an error, with the file system      *)
(* untouched and no archive opened.                                        *)
(***************************************************************************)
IsInteger(s) ==
    LET u == IF s # <<>> /\ Head(s) \in {"-", "+"} THEN Tail(s) ELSE s
    IN  /\ u # <<>>
        /\ \A i \in 1..Len(u) : IsDigit(u[i], 10)

IntegerIn(s, lo, hi) ==
    /\ IsInteger(s)
    /\ parseInt(s).value >= lo
    /\ parseInt(s).value <= hi

ConfigurationError ==
    \/ ~IntegerIn(argv.quality, 0, MaxQuality)
    \/ ~IntegerIn(argv.alphaQuality, 0, MaxAlphaQuality)
    \/ ~IntegerIn(argv.method, 0, MaxMethod)
    \/ ~IntegerIn(argv.concurrency, MinConcurrency, MaxConcurrency)
    \/ fs.source # "file"
    \/ fs.destination /\ ~argv.force

C6_ConfigurationRejected ==
    [][(pc = "action" /\ ConfigurationError) =>
          /\ pc' = "settled"
          /\ error' # "none"
          /\ fs' = fs
          /\ sourceDb' = "unopened"
          /\ destDb' = "unopened"]_vars

(***************************************************************************)
(* C7 as stated: every fatal error reaches the handler that prints         *)
(* Error: <message> and ends the process with a non-zero code, and a run   *)
(* without a fatal error ends with code 0.                                 *)
(***************************************************************************)
C7_FatalErrorHandled ==
    pc = "exited" =>
        IF error # "none"
        THEN exit.handled /\ exit.code # 0
        ELSE exit.code = 0

(***************************************************************************)
(* C8 as stated: with --skip-count the count query is never run; without   *)
(* it the query is run once, before the first tile is admitted.            *)
(***************************************************************************)
C8_SkipCount ==
    IF argv.skipCount
    THEN countQueries = 0
    ELSE /\ countQueries <= 1
         /\ (\E t \in Tiles : status[t] # "idle") => countQueries = 1

(***************************************************************************)
(* C9: the run has left the Transcoding stage only if every tile of the    *)
(* source has been admitted and every chain has completed: the active set  *)
(* is empty and no callback that writes is left to run.                    *)
(***************************************************************************)
C9_TranscodingComplete ==
    PastTranscoding =>
        /\ next > Len(tiles)
        /\ \A t \in Tiles : status[t] = "done"
        /\ activePromises = {}
        /\ InFlight = {}
        /\ processed = Len(tiles)

\* finalization has started after three tiles, one of which failed
C9_Witness ==
    /\ pc = "finalize"
    /\ finalized >= 1
    /\ Len(tiles) >= 3
    /\ Failures # {}

(***************************************************************************)
(* C10: when every compressTile call settles and every ready callback is   *)
(* run, the process exits, and a run that enters the admission loop admits *)
(* every tile, completes every chain and reaches the summary.              *)
(***************************************************************************)
C10_Terminates ==
    /\ <>(pc = "exited")
    /\ (pc = "loop") ~>
          (pc = "summary" /\ \A t \in Tiles : status[t] = "done")

\* a serialized run of several tiles, one of them failed, has exited
C10_Witness ==
    /\ pc = "exited"
    /\ concurrency = 1
    /\ summary.printed
    /\ summary.processed >= 2
    /\ summary.failed >= 1

(***************************************************************************)
(* C11: the steps of one tile run in the order transcode, digest, image    *)
(* insert, map insert: a tile's map row exists only when its own transcode *)
(* has resolved, its digest has been computed and its image insert has     *)
(* been executed before the map insert.  Nothing orders the steps of       *)
(* different tiles.                                                        *)
(***************************************************************************)
IsPrefix(s, t) == Len(s) <= Len(t) /\ SubSeq(t, 1, Len(s)) = s

ItemOrder == <<"compressTile", "md5_hex", "insertTile", "insertMap">>

C11_PerItemOrdering ==
    \A t \in Tiles :
        /\ IsPrefix(steps[t], ItemOrder)
        /\ MapRows(t) >= 1 =>
              /\ steps[t] = ItemOrder
              /\ status[t] \in {"fulfilled", "done"}

\* a later tile's map row is written while an earlier tile's transcode is
\* still running
C11_Witness ==
    \E t, u \in Tiles :
        /\ t < u
        /\ status[t] = "compressing"
        /\ steps[t] = <<>>
        /\ steps[u] = ItemOrder
        /\ MapRows(u) = 1

(***************************************************************************)
(* C12 as stated: the image insert and the map insert of one item take     *)
(* effect together or not at all: the images table holds no row whose      *)
(* digest was inserted only by items whose map insert failed, and an item  *)
(* whose write failed has no map row.                                      *)
(***************************************************************************)
C12_AtomicWrite ==
    /\ \A r \in BagToSet(images) :
          \E t \in Successes : Digest(t) = r.tile_id
    /\ \A t \in Failures : MapRows(t) = 0

(***************************************************************************)
(* C13 as stated: among the structural statements executed, every table    *)
(* is created before every index and view, every index and view is created *)
(* before any table is copied, and images and map are never copied.        *)
(***************************************************************************)
IsCreateTable(stmt) == stmt.op = "create" /\ stmt.type = "table"

IsCreateOther(stmt) == stmt.op = "create" /\ stmt.type # "table"

IsCopy(stmt) == stmt.op = "copy"

\* in the log, no statement satisfying Later precedes one satisfying Earlier
Precedes(Earlier(_), Later(_)) ==
    \A i, j \in DOMAIN schemaLog :
        (Earlier(schemaLog[i]) /\ Later(schemaLog[j])) => i < j

NeverBulkCopied ==
    \A i \in DOMAIN schemaLog :
        IsCopy(schemaLog[i]) => schemaLog[i].name \notin {"images", "map"}

C13_SchemaOrder ==
    /\ Precedes(IsCreateTable, IsCreateOther)
    /\ Precedes(IsCreateOther, IsCopy)
    /\ NeverBulkCopied

(***************************************************************************)
(* C13 amended: every table is created first, then the contents of every   *)
(* table other than images and map are copied, and only then is every      *)
(* index and view created; images and map are never copied; when the       *)
(* count query is reached every object of the source has been created and  *)
(* every other table copied.                                               *)
(***************************************************************************)
C13_TablesCopyIndexes ==
    /\ Precedes(IsCreateTable, IsCopy)
    /\ Precedes(IsCopy, IsCreateOther)
    /\ Precedes(IsCreateTable, IsCreateOther)
    /\ NeverBulkCopied
    /\ pc = "count" =>
          /\ {x.name : x \in {y \in Range(schemaLog) : y.op = "create"}}
                 = {o.name : o \in SourceObjects}
          /\ {x.name : x \in {y \in Range(schemaLog) : IsCopy(y)}}
                 = {"metadata"}

\* schema replication has completed: tables, copies, indexes and views
C13_Witness ==
    /\ pc = "count"
    /\ \E i, j, k \in DOMAIN schemaLog :
          /\ i < j /\ j < k
          /\ IsCreateTable(schemaLog[i])
          /\ IsCopy(schemaLog[j])
          /\ IsCreateOther(schemaLog[k])

(***************************************************************************)
(* C14: a tile is admitted, and a row written, only when every table of    *)
(* the source has been created, every table other than images and map      *)
(* copied and every index and view created; a run whose structural         *)
(* statement failed ends with a non-zero exit code, no tile admitted and   *)
(* no image or map row written.                                            *)
(***************************************************************************)
SourceNames == {o.name : o \in SourceObjects}

SchemaReplicated ==
    /\ destObjects = SourceNames
    /\ copied = CopiedTables(SourceObjects)

NothingAdmitted ==
    /\ \A t \in Tiles : status[t] = "idle" /\ steps[t] = <<>>
    /\ activePromises = {}
    /\ images = EmptyBag
    /\ map = EmptyBag

SchemaFailed ==
    /\ sourceDb # "unopened"
    /\ error # "none"
    /\ ~SchemaReplicated

C14_SchemaBeforeTiles ==
    /\ ~SchemaReplicated => NothingAdmitted /\ pc \notin {"admit", "race", "all"}
    /\ SchemaFailed =>
          /\ pc \in {"finally", "settled", "exited"}
          /\ pc = "exited" => exit.code # 0

\* a run whose structural statement failed after some had succeeded has
\* exited
C14_Witness ==
    /\ SchemaFailed
    /\ pc = "exited"
    /\ destObjects # {}
    /\ Len(tiles) >= 1

(***************************************************************************)
(* C15 as stated: while tiles are being transcoded the destination holds   *)
(* a helper index that is not an object of the source, and when the run    *)
(* is done that index is gone.                                             *)
(***************************************************************************)
Transcoding == pc \in {"loop", "admit", "race", "all"}

C15_HelperIndex ==
    /\ Transcoding => destObjects \ SourceNames # {}
    /\ (pc = "exited" /\ exit.code = 0) => destObjects \subseteq SourceNames

(***************************************************************************)
(* C15 amended: the destination never holds an object that the source does *)
(* not hold, helper index included; the indexes it holds are those of the  *)
(* source, all of them created before the first tile is admitted and       *)
(* present from then on, through finalization and at exit.                 *)
(***************************************************************************)
SourceIndexes == {o.name : o \in {x \in SourceObjects : x.type = "index"}}

C15_SourceIndexesOnly ==
    /\ [](/\ destObjects \subseteq SourceNames
          /\ (Transcoding \/ PastTranscoding) =>
                SourceIndexes \subseteq destObjects)
    /\ [][destObjects \subseteq destObjects']_vars

\* a completed run: only the indexes of the source are in the destination
C15_Witness ==
    /\ pc = "exited"
    /\ exit.code = 0
    /\ summary.processed >= 1
    /\ {n \in destObjects : n \in SourceIndexes} = {"map_index", "images_id"}

(***************************************************************************)
(* C16 as stated: when a finalization statement fails after the summary,   *)
(* the run still ends with the success outcome: exit code 0 and no fatal   *)
(* error, both archives closed.                                            *)
(***************************************************************************)
C16_FinalizationWarning ==
    (pc = "exited" /\ summary.printed
        /\ finalized < Len(FinalizeStatements)) =>
        /\ exit.code = 0
        /\ error = "none"
        /\ sourceDb = "closed"
        /\ destDb = "closed"

(***************************************************************************)
(* C17: with concurrency 1 a tile is submitted only when every tile before *)
(* it has completed, so at most one chain is in flight and the tiles are   *)
(* written in source order; with a higher concurrency several chains are   *)
(* in flight at once and a later tile can complete before an earlier one.  *)
(***************************************************************************)
C17_SerializedAtOne ==
    (concurrency = 1 /\ pc \notin {"action", "open"}) =>
        /\ Cardinality(InFlight) <= 1
        /\ \A t \in Tiles :
              (status[t] # "idle" \/ steps[t] # <<>> \/ MapRows(t) >= 1) =>
                  \A u \in Tiles : u < t => status[u] = "done"

\* concurrency 2: two chains in flight, the second tile completed while the
\* first is still being transcoded
C17_Witness ==
    /\ concurrency = 2
    /\ Cardinality(InFlight) = 2
    /\ Len(tiles) >= 3
    /\ status[1] = "compressing"
    /\ status[2] = "done"
    /\ status[3] = "compressing"

(***************************************************************************)
(* C18: for every tile whose transcode and write succeeded, the map table  *)
(* holds exactly one row with the tile's coordinate, and the tile_id of    *)
(* that row is the digest of the tile's own transcoded bytes, whatever the *)
(* order in which the chains complete.                                     *)
(***************************************************************************)
C18_OwnDigest ==
    \A t \in Successes :
        /\ MapRows(t) = 1
        /\ {r \in BagToSet(map) : r.coord = t}
              = {[coord |-> t, tile_id |-> Digest(t)]}
        /\ [tile_id |-> Digest(t), tile_data |-> compressTile(tiles[t])]
              \in BagToSet(images)

\* the run has completed; two tiles with different bytes, transcoded
\* concurrently, were both written
C18_Witness ==
    /\ pc = "exited"
    /\ exit.code = 0
    /\ concurrency = 2
    /\ \E t, u \in Successes :
          /\ t < u
          /\ Digest(t) # Digest(u)
          /\ MapRows(t) = 1
          /\ MapRows(u) = 1

(***************************************************************************)
(* C19: processed and failed never decrease and grow by one at a time;     *)
(* processed counts the chains that have completed, each once, and failed  *)
(* the failed items whose catch callback has run, each once; the summary   *)
(* reports as processed the number of tiles of the source and as failed    *)
(* the number of items whose transcode or write failed, and the map table  *)
(* then holds processed minus failed rows.                                 *)
(***************************************************************************)
Completed == {t \in Tiles : status[t] \in {"done", "doneRejected"}}

Caught == {t \in Failures : status[t] \in {"fulfilled", "done"}}

C19_Accounting ==
    /\ [](/\ processed = Cardinality(Completed)
          /\ failed = Cardinality(Caught)
          /\ failed <= processed + Cardinality(InFlight)
          /\ summary.printed =>
                /\ summary.processed = Len(tiles)
                /\ summary.failed = Cardinality(Failures)
                /\ BagCardinality(map)
                      = summary.processed - summary.failed)
    /\ [][/\ processed' \in {processed, processed + 1}
          /\ failed' \in {failed, failed + 1}]_vars

\* the summary of a run of three tiles of which one failed and two were
\* written
C19_Witness ==
    /\ summary.printed
    /\ summary.processed = 3
    /\ summary.failed = 1
    /\ BagCardinality(map) = 2

(***************************************************************************)
(* C20: once run() has settled after opening the archives, whether it      *)
(* succeeded or a structural statement, the count query or a finalization  *)
(* statement failed, both archives are closed and were closed once; they   *)
(* are closed only when no chain is in flight, and nothing is read from or *)
(* written to an archive after the close.                                  *)
(***************************************************************************)
Opened == sourceDb # "unopened" \/ destDb # "unopened"

BothClosed == sourceDb = "closed" /\ destDb = "closed"

C20_ClosedOnce ==
    /\ [](/\ closes <= 1
          /\ (pc \in {"settled", "exited"} /\ Opened) =>
                BothClosed /\ closes = 1
          /\ (sourceDb = "closed" \/ destDb = "closed") =>
                /\ BothClosed
                /\ InFlight = {}
                /\ pc \in {"settled", "exited"})
    /\ [][BothClosed =>
            UNCHANGED <<sourceDb, destDb, closes, destObjects, schemaLog,
                        copied, images, map, countQueries, next, steps,
                        finalized>>]_vars

\* a run whose finalization failed has exited with both archives closed
C20_Witness ==
    /\ pc = "exited"
    /\ BothClosed
    /\ closes = 1
    /\ summary.printed
    /\ error # "none"

====
